---- MODULE Spec2Model ----
(***************************************************************************)
(* Model of src/order_handler.py: the FastAPI application with the single  *)
(* endpoint POST /order/{customer_id}, the pydantic models Product and     *)
(* Order with their computed fields, and the in-memory list                *)
(* fake_orders_db.                                                         *)
(*                                                                         *)
(* Numbers.  A JSON number and a Python float are represented by the       *)
(* integer count of halves they hold (1.5 is 3, 10.0 is 20, -1.5 is -3).   *)
(* Every value used is a small dyadic rational, on which IEEE-754 double   *)
(* arithmetic is exact, so the integer arithmetic below is the float       *)
(* arithmetic of the program.  A Python int is a TLA+ integer.             *)
(*                                                                         *)
(* Text.  A string is the sequence of its characters.                      *)
(***************************************************************************)
EXTENDS Integers, Sequences, FiniteSets

\* ------------------------------------------------------------- bounds

\* Number of requests a behaviour submits.
MaxRequests == 2

\* Longest product list drawn for the totals specification (SpecTotals).
MaxProducts == 2

Requests == 1..MaxRequests

\* ------------------------------------------------------------- values

\* Halves per unit: the fixed-point scale that represents `float`.
HalvesPerUnit == 2

\* Python None / an optional value that is present.
None == [some |-> FALSE, value |-> <<>>]
Some(v) == [some |-> TRUE, value |-> v]

\* JSON values as they arrive in a request body.
Absent == [kind |-> "absent", num |-> 0, str |-> <<>>]
Num(h) == [kind |-> "number", num |-> h, str |-> <<>>]
Str(s) == [kind |-> "string", num |-> 0, str |-> s]

Digits == {"0", "1", "2", "3", "4", "5", "6", "7", "8", "9"}

DigitValue(c) ==
    CASE c = "0" -> 0 [] c = "1" -> 1 [] c = "2" -> 2 [] c = "3" -> 3
      [] c = "4" -> 4 [] c = "5" -> 5 [] c = "6" -> 6 [] c = "7" -> 7
      [] c = "8" -> 8 [] c = "9" -> 9

\* A decimal integer literal: one or more digits.
IsIntText(s) == Len(s) > 0 /\ \A i \in 1..Len(s) : s[i] \in Digits

RECURSIVE ParseInt(_)
ParseInt(s) ==
    IF Len(s) = 0 THEN 0
    ELSE 10 * ParseInt(SubSeq(s, 1, Len(s) - 1)) + DigitValue(s[Len(s)])

\* ------------------------------------------------------------- Product

\* product_name: str -- a JSON string, nothing else is coerced to str.
ValidName(v) == v.kind = "string"

\* price: float -- a JSON number, or a string holding a decimal integer.
ValidPrice(v) ==
    \/ v.kind = "number"
    \/ v.kind = "string" /\ IsIntText(v.str)

CoercePrice(v) ==
    IF v.kind = "number" THEN v.num ELSE HalvesPerUnit * ParseInt(v.str)

\* quantity declared with a lower bound of zero.
ValidQuantityNonNegative(v) ==
    \/ v.kind = "number" /\ v.num % HalvesPerUnit = 0 /\ v.num >= 0
    \/ v.kind = "string" /\ IsIntText(v.str)

\* quantity: int -- a JSON number with no fractional part, or a string
\* holding a decimal integer.
ValidQuantity(v) ==
    \/ v.kind = "number" /\ v.num % HalvesPerUnit = 0
    \/ v.kind = "string" /\ IsIntText(v.str)

CoerceQuantity(v) ==
    IF v.kind = "number" THEN v.num \div HalvesPerUnit ELSE ParseInt(v.str)

\* The three required fields of Product; no constraint on sign or range.
ValidProduct(p) ==
    /\ ValidName(p.product_name)
    /\ ValidPrice(p.price)
    /\ ValidQuantity(p.quantity)

ParseProduct(p) ==
    [product_name |-> p.product_name.str,
     price |-> CoercePrice(p.price),
     quantity |-> CoerceQuantity(p.quantity)]

\* ------------------------------------------------------------- Order

LowerChar(c) ==
    CASE c = "A" -> "a" [] c = "B" -> "b" [] c = "C" -> "c" [] OTHER -> c

AtPositions(s) == {i \in 1..Len(s) : s[i] = "@"}

\* EmailStr: exactly one "@", a non-empty local part, and a domain of
\* non-empty labels separated by dots, with at least one dot.
IsEmail(s) ==
    /\ Cardinality(AtPositions(s)) = 1
    /\ LET at == CHOOSE i \in AtPositions(s) : TRUE
           dom == SubSeq(s, at + 1, Len(s))
       IN  /\ at > 1
           /\ s[1] # "." /\ s[at - 1] # "."
           /\ Len(dom) > 0
           /\ dom[1] # "." /\ dom[Len(dom)] # "."
           /\ \E i \in 1..Len(dom) : dom[i] = "."
           /\ \A i \in 1..(Len(dom) - 1) : ~(dom[i] = "." /\ dom[i + 1] = ".")

\* EmailStr returns the normalised address: what follows the last "@",
\* the domain, in lower case.
NormalizeEmail(s) ==
    LET at == IF AtPositions(s) = {} THEN Len(s)
              ELSE CHOOSE i \in AtPositions(s) : \A j \in AtPositions(s) : j <= i
    IN  [i \in 1..Len(s) |-> IF i > at THEN LowerChar(s[i]) ELSE s[i]]

\* email: EmailStr | None = None
ValidEmail(v) ==
    \/ v.kind = "absent"
    \/ v.kind = "string" /\ IsEmail(v.str)

ParseEmail(v) ==
    IF v.kind = "absent" THEN None ELSE Some(NormalizeEmail(v.str))

\* products: list[Product] -- required, any length, every item a Product.
ValidProducts(b) ==
    /\ b.has_products
    /\ \A i \in 1..Len(b.products) : ValidProduct(b.products[i])

ParseProducts(b) ==
    [i \in 1..Len(b.products) |-> ParseProduct(b.products[i])]

ParseOrder(b) ==
    [email |-> ParseEmail(b.email), products |-> ParseProducts(b)]

\* Order.total_price: the loop of lines 57-60, with its accumulator.
RECURSIVE TotalPriceLoop(_, _, _)
TotalPriceLoop(products, i, total_price) ==
    IF i > Len(products) THEN total_price
    ELSE TotalPriceLoop(products, i + 1,
                        total_price + products[i].price * products[i].quantity)

\* The loop adding product.price without the quantity.
RECURSIVE TotalPriceLoopNoQuantity(_, _, _)
TotalPriceLoopNoQuantity(products, i, total) ==
    IF i > Len(products) THEN total
    ELSE TotalPriceLoopNoQuantity(products, i + 1, total + products[i].price)

total_price_NoQuantity(order) == TotalPriceLoopNoQuantity(order.products, 1, 0)

total_price(order) == TotalPriceLoop(order.products, 1, 0)

\* Order.total_quantity: the loop of lines 65-68, with its accumulator.
RECURSIVE TotalQuantityLoop(_, _, _)
TotalQuantityLoop(products, i, total_quantity) ==
    IF i > Len(products) THEN total_quantity
    ELSE TotalQuantityLoop(products, i + 1,
                           total_quantity + products[i].quantity)

total_quantity(order) == TotalQuantityLoop(order.products, 1, 0)

\* The dump of a model whose totals are plain properties, not fields.
model_dump_NoComputed(order) ==
    [email |-> order.email, products |-> order.products]

\* Order.model_dump(): the declared fields, then the computed fields.
model_dump(order) ==
    [email |-> order.email,
     products |-> order.products,
     total_price |-> total_price(order),
     total_quantity |-> total_quantity(order)]

\* ------------------------------------------------------------- requests

\* The path segments and JSON bodies that clients send.
RequestPaths == {<<"7">>, <<"4", "2">>, <<"x">>}

RawProduct(name, price, quantity) ==
    [product_name |-> name, price |-> price, quantity |-> quantity]

Pen(units) == RawProduct(Str(<<"P", "e", "n">>), Num(3), Num(HalvesPerUnit * units))
Mug == RawProduct(Str(<<"M", "u", "g">>), Num(20), Num(2))
Refund == RawProduct(Str(<<"P", "e", "n">>), Num(-3), Str(<<"1">>))
NoName == RawProduct(Absent, Num(3), Num(2))
HalfUnit == RawProduct(Str(<<"P", "e", "n">>), Num(3), Num(3))

RequestEmails ==
    {Absent,
     Str(<<"a", "@", "B", ".", "c">>),
     Str(<<"n", "o", "-", "a", "t">>)}

RequestProductLists ==
    {<<>>, <<Pen(4)>>, <<Pen(2), Mug>>, <<Refund>>, <<Pen(-2)>>,
     <<Pen(2), HalfUnit>>, <<NoName>>}

Body(email, has_products, products) ==
    [email |-> email, has_products |-> has_products, products |-> products]

\* Every product list without an email, every email with the empty list
\* and with the two-product list, and the body that has no products.
RequestBodies ==
    {Body(Absent, TRUE, l) : l \in RequestProductLists}
    \cup {Body(e, TRUE, l) : e \in RequestEmails, l \in {<<>>, <<Pen(2), Mug>>}}
    \cup {Body(e, FALSE, <<>>) : e \in RequestEmails}

\* ------------------------------------------------------------- state

VARIABLES
    fake_orders_db, \* the module-level list of line 71
    pc,             \* per request: its position in the framework and handler
    raw,            \* per request: the path segment and body being read
    customer_id,    \* per request: the handler's parameter customer_id
    order,          \* per request: the handler's parameter order
    snapshot,       \* per request: the value of order.model_dump()
    response,       \* per request: the HTTP response sent
    slot,           \* per request: the index its entry was appended at
    running,        \* the request whose task the event loop is running, or 0
    ran             \* the requests in the order their handlers started

vars == <<fake_orders_db, pc, raw, customer_id, order, snapshot, response,
          slot, running, ran>>

NoRaw == [path |-> <<>>, has_body |-> FALSE]
NoOrder == [email |-> None, products |-> <<>>]
NoSnapshot == [taken |-> FALSE]
NoResponse == [status |-> 0]

Init ==
    /\ fake_orders_db = <<>>
    /\ pc = [r \in Requests |-> "new"]
    /\ raw = [r \in Requests |-> NoRaw]
    /\ customer_id = [r \in Requests |-> 0]
    /\ order = [r \in Requests |-> NoOrder]
    /\ snapshot = [r \in Requests |-> NoSnapshot]
    /\ response = [r \in Requests |-> NoResponse]
    /\ slot = [r \in Requests |-> 0]
    /\ running = 0
    /\ ran = <<>>

\* ------------------------------------------------------------- framework

\* A client sends POST /order/<path> with a body; the request's task waits
\* for the body.  Requests are numbered in the order they arrive.
Receive(r, path, body) ==
    /\ running = 0
    /\ pc[r] = "new"
    /\ \A q \in Requests : q < r => pc[q] # "new"
    /\ raw' = [raw EXCEPT ![r] = [path |-> path, has_body |-> TRUE, body |-> body]]
    /\ pc' = [pc EXCEPT ![r] = "reading"]
    /\ UNCHANGED <<fake_orders_db, customer_id, order, snapshot, response,
                   slot, running, ran>>

\* customer_id: int -- the path segment must be a decimal integer.
ValidPath(path) == IsIntText(path)

\* The locations reported when email is declared as plain text.
ValidationErrorsNoEmail(req) ==
    {loc \in {"path.customer_id", "body.products"} :
        \/ loc = "path.customer_id" /\ ~ValidPath(req.path)
        \/ loc = "body.products" /\ ~ValidProducts(req.body)}

\* The locations the 422 response reports.
ValidationErrors(req) ==
    {loc \in {"path.customer_id", "body.email", "body.products"} :
        \/ loc = "path.customer_id" /\ ~ValidPath(req.path)
        \/ loc = "body.email" /\ ~ValidEmail(req.body.email)
        \/ loc = "body.products" /\ ~ValidProducts(req.body)}

\* The framework binds the declared parameters: on any validation error it
\* answers 422 and the handler is not called; otherwise the task goes on
\* into process_order without yielding to the event loop.
Validate(r) ==
    /\ running = 0
    /\ pc[r] = "reading"
    /\ raw' = [raw EXCEPT ![r] = NoRaw]
    /\ IF ValidationErrors(raw[r]) = {}
       THEN /\ pc' = [pc EXCEPT ![r] = "validated"]
            /\ customer_id' = [customer_id EXCEPT ![r] = ParseInt(raw[r].path)]
            /\ order' = [order EXCEPT ![r] = ParseOrder(raw[r].body)]
            /\ running' = r
            /\ UNCHANGED response
       ELSE /\ pc' = [pc EXCEPT ![r] = "rejected"]
            /\ response' = [response EXCEPT ![r] =
                   [status |-> 422, errors |-> ValidationErrors(raw[r])]]
            /\ UNCHANGED <<customer_id, order, running>>
    /\ UNCHANGED <<fake_orders_db, snapshot, slot, ran>>

\* ------------------------------------------------------------- process_order

\* The handler with a suspension point after the dump.
HandlerDumpThenAwait(r) ==
    /\ running = r
    /\ pc[r] = "validated"
    /\ snapshot' = [snapshot EXCEPT ![r] =
           [taken |-> TRUE, value |-> model_dump(order[r])]]
    /\ ran' = Append(ran, r)
    /\ pc' = [pc EXCEPT ![r] = "dumped"]
    /\ running' = 0
    /\ UNCHANGED <<fake_orders_db, raw, customer_id, order, response, slot>>

\* Line 86, the argument: order.model_dump() is evaluated first.
HandlerDump(r) ==
    /\ running = r
    /\ pc[r] = "validated"
    /\ snapshot' = [snapshot EXCEPT ![r] =
           [taken |-> TRUE, value |-> model_dump(order[r])]]
    /\ ran' = Append(ran, r)
    /\ pc' = [pc EXCEPT ![r] = "dumped"]
    /\ UNCHANGED <<fake_orders_db, raw, customer_id, order, response, slot,
                   running>>

\* The append that skips a dump already in the list.
HandlerAppendDedup(r) ==
    /\ running = r
    /\ pc[r] = "dumped"
    /\ IF \E i \in 1..Len(fake_orders_db) : fake_orders_db[i] = snapshot[r].value
       THEN /\ UNCHANGED fake_orders_db
            /\ slot' = [slot EXCEPT ![r] =
                   CHOOSE i \in 1..Len(fake_orders_db) :
                       fake_orders_db[i] = snapshot[r].value]
       ELSE /\ fake_orders_db' = Append(fake_orders_db, snapshot[r].value)
            /\ slot' = [slot EXCEPT ![r] = Len(fake_orders_db) + 1]
    /\ pc' = [pc EXCEPT ![r] = "appended"]
    /\ UNCHANGED <<raw, customer_id, order, snapshot, response, running, ran>>

\* The dump inserted at the head of the list: insert(0, ...).
HandlerAppendFront(r) ==
    /\ running = r
    /\ pc[r] = "dumped"
    /\ fake_orders_db' = <<snapshot[r].value>> \o fake_orders_db
    /\ slot' = [q \in Requests |->
           IF q = r THEN 1 ELSE IF slot[q] = 0 THEN 0 ELSE slot[q] + 1]
    /\ pc' = [pc EXCEPT ![r] = "appended"]
    /\ UNCHANGED <<raw, customer_id, order, snapshot, response, running, ran>>

\* Line 86, the call: fake_orders_db.append(<the dump>).
HandlerAppend(r) ==
    /\ running = r
    /\ pc[r] = "dumped"
    /\ fake_orders_db' = Append(fake_orders_db, snapshot[r].value)
    /\ slot' = [slot EXCEPT ![r] = Len(fake_orders_db) + 1]
    /\ pc' = [pc EXCEPT ![r] = "appended"]
    /\ UNCHANGED <<raw, customer_id, order, snapshot, response, running, ran>>

\* The summary whose id is the entry's position in the list.
HandlerReturnStoreId(r) ==
    /\ running = r
    /\ pc[r] = "appended"
    /\ response' = [response EXCEPT ![r] =
           [status |-> 200,
            body |-> [id |-> Len(fake_orders_db),
                      quantity |-> total_quantity(order[r]),
                      total_price |-> total_price(order[r])]]]
    /\ pc' = [pc EXCEPT ![r] = "done"]
    /\ running' = 0
    /\ UNCHANGED <<fake_orders_db, raw, customer_id, order, snapshot, slot, ran>>

\* The summary returned straight after the dump, the append left out.
HandlerReturnEarly(r) ==
    /\ running = r
    /\ pc[r] = "dumped"
    /\ response' = [response EXCEPT ![r] =
           [status |-> 200,
            body |-> [id |-> customer_id[r],
                      quantity |-> total_quantity(order[r]),
                      total_price |-> total_price(order[r])]]]
    /\ pc' = [pc EXCEPT ![r] = "done"]
    /\ running' = 0
    /\ UNCHANGED <<fake_orders_db, raw, customer_id, order, snapshot, slot, ran>>

\* The summary whose quantity counts the product lines, not the units.
HandlerReturnLineCount(r) ==
    /\ running = r
    /\ pc[r] = "appended"
    /\ response' = [response EXCEPT ![r] =
           [status |-> 200,
            body |-> [id |-> customer_id[r],
                      quantity |-> Len(order[r].products),
                      total_price |-> total_price(order[r])]]]
    /\ pc' = [pc EXCEPT ![r] = "done"]
    /\ running' = 0
    /\ UNCHANGED <<fake_orders_db, raw, customer_id, order, snapshot, slot, ran>>

\* Lines 87-91: the summary is built from the parameters, reading the two
\* computed properties again, and returned; the task ends.
HandlerReturn(r) ==
    /\ running = r
    /\ pc[r] = "appended"
    /\ response' = [response EXCEPT ![r] =
           [status |-> 200,
            body |-> [id |-> customer_id[r],
                      quantity |-> total_quantity(order[r]),
                      total_price |-> total_price(order[r])]]]
    /\ pc' = [pc EXCEPT ![r] = "done"]
    /\ running' = 0
    /\ UNCHANGED <<fake_orders_db, raw, customer_id, order, snapshot, slot, ran>>

Next ==
    \/ \E r \in Requests, path \in RequestPaths, body \in RequestBodies :
           Receive(r, path, body)
    \/ \E r \in Requests : Validate(r)
    \/ \E r \in Requests : HandlerDump(r)
    \/ \E r \in Requests : HandlerAppend(r)
    \/ \E r \in Requests : HandlerReturn(r)

Spec == Init /\ [][Next]_vars

\* ------------------------------------------------------------- totals

\* Orders as pydantic hands them to the handler, drawn over every product
\* list of up to MaxProducts items.
TotalsPrices == {-3, 3, 20}
TotalsQuantities == {-2, 0, 1, 2}

TotalsProducts ==
    [product_name : {<<"P">>}, price : TotalsPrices, quantity : TotalsQuantities]

TotalsOrders ==
    [email : {None},
     products : UNION {[1..n -> TotalsProducts] : n \in 0..MaxProducts}]

\* Request 1 has been validated and its task is about to enter the handler.
InitTotals ==
    /\ fake_orders_db = <<>>
    /\ pc = [r \in Requests |-> IF r = 1 THEN "validated" ELSE "new"]
    /\ raw = [r \in Requests |-> NoRaw]
    /\ customer_id = [r \in Requests |-> IF r = 1 THEN 7 ELSE 0]
    /\ \E o \in TotalsOrders :
           order = [r \in Requests |-> IF r = 1 THEN o ELSE NoOrder]
    /\ snapshot = [r \in Requests |-> NoSnapshot]
    /\ response = [r \in Requests |-> NoResponse]
    /\ slot = [r \in Requests |-> 0]
    /\ running = 1
    /\ ran = <<>>

NextTotals ==
    \/ \E r \in Requests : HandlerDump(r)
    \/ \E r \in Requests : HandlerAppend(r)
    \/ \E r \in Requests : HandlerReturn(r)

SpecTotals == InitTotals /\ [][NextTotals]_vars

\* ------------------------------------------------------------- properties

\* Sums written over the index set, independently of the program's loops.
RECURSIVE SumQuantity(_, _)
SumQuantity(products, I) ==
    IF I = {} THEN 0
    ELSE LET i == CHOOSE j \in I : TRUE
         IN  products[i].quantity + SumQuantity(products, I \ {i})

RECURSIVE SumPriceTimesQuantity(_, _)
SumPriceTimesQuantity(products, I) ==
    IF I = {} THEN 0
    ELSE LET i == CHOOSE j \in I : TRUE
         IN  products[i].price * products[i].quantity
               + SumPriceTimesQuantity(products, I \ {i})

Range(f) == {f[i] : i \in DOMAIN f}

IsPrefix(s, t) == Len(s) <= Len(t) /\ SubSeq(t, 1, Len(s)) = s

\* C1: for every valid order, total_quantity is the sum of quantity over
\* its products and total_price is the sum of price * quantity over its
\* products; for an empty product list both are zero.  Stated of the two
\* places the program reads the computed fields: the dump and the summary.
C1_TotalsAreSums ==
    \A r \in Requests :
        LET products == order[r].products
            q == SumQuantity(products, DOMAIN products)
            t == SumPriceTimesQuantity(products, DOMAIN products)
        IN  /\ snapshot[r].taken =>
                /\ snapshot[r].value.total_quantity = q
                /\ snapshot[r].value.total_price = t
                /\ products = <<>> =>
                       /\ snapshot[r].value.total_quantity = 0
                       /\ snapshot[r].value.total_price = 0
            /\ response[r].status = 200 =>
                /\ response[r].body.quantity = q
                /\ response[r].body.total_price = t
                /\ products = <<>> =>
                       /\ response[r].body.quantity = 0
                       /\ response[r].body.total_price = 0

\* A two-product order with a negative line has been dumped and answered.
C1_Witness ==
    \E r \in Requests :
        /\ pc[r] = "done"
        /\ Len(order[r].products) = 2
        /\ order[r].products[1].price # order[r].products[2].price
        /\ order[r].products[1].quantity < 0
        /\ order[r].products[2].quantity > 1
        /\ response[r].body.total_price # 0

\* A request as sent that the claims call malformed: a path that is not a
\* decimal integer, a body without products, a product with a field that is
\* missing or of the wrong type, or an email that is not an address.
Malformed(req) ==
    \/ ~IsIntText(req.path)
    \/ ~req.body.has_products
    \/ \E i \in 1..Len(req.body.products) :
           LET p == req.body.products[i]
           IN  \/ p.product_name.kind # "string"
               \/ p.price.kind = "absent"
               \/ p.price.kind = "string" /\ ~IsIntText(p.price.str)
               \/ p.quantity.kind = "absent"
               \/ p.quantity.kind = "string" /\ ~IsIntText(p.quantity.str)
               \/ p.quantity.kind = "number" /\ p.quantity.num % 2 # 0
    \/ req.body.email.kind = "string" /\ ~IsEmail(req.body.email.str)

\* What a rejected request leaves behind: a 422, and nothing of the handler.
RejectedCleanly(r) ==
    /\ response[r].status = 422
    /\ response[r].errors # {}
    /\ ~snapshot[r].taken
    /\ slot[r] = 0
    /\ \A i \in 1..Len(ran) : ran[i] # r

\* C2: a request that fails validation is rejected before the handler
\* runs: the step that settles it answers 422 and leaves the order store
\* as it was, no summary is ever returned for it, and it stays rejected.
C2_InvalidRejectedStoreUntouched ==
    /\ [](\A r \in Requests : pc[r] = "rejected" => RejectedCleanly(r))
    /\ [][\A r \in Requests :
             /\ (pc[r] = "reading" /\ Malformed(raw[r]) /\ pc'[r] # "reading") =>
                    /\ pc'[r] = "rejected"
                    /\ response'[r].status = 422
                    /\ fake_orders_db' = fake_orders_db
             /\ pc[r] = "rejected" =>
                    /\ pc'[r] = "rejected"
                    /\ response'[r] = response[r]]_vars

\* A request was rejected for its email while an accepted one is stored.
C2_Witness ==
    \E r, q \in Requests :
        /\ pc[r] = "rejected"
        /\ response[r].errors = {"body.email"}
        /\ pc[q] = "done"
        /\ Len(fake_orders_db) = 1

\* C3: every accepted request appends exactly one entry, with no
\* deduplication: the store's length is the number of requests that have
\* appended, each at a position of its own; once no handler is running it
\* is the number of summaries returned; and two accepted requests with the
\* same order hold two entries with the same content.
C3_OneEntryPerAccepted ==
    /\ Len(fake_orders_db) =
           Cardinality({r \in Requests : pc[r] \in {"appended", "done"}})
    /\ running = 0 =>
           Len(fake_orders_db) =
               Cardinality({r \in Requests : response[r].status = 200})
    /\ \A r, q \in Requests :
           (r # q /\ pc[r] = "done" /\ pc[q] = "done") =>
               /\ slot[r] \in 1..Len(fake_orders_db)
               /\ slot[r] # slot[q]
               /\ order[r] = order[q] =>
                      fake_orders_db[slot[r]] = fake_orders_db[slot[q]]

\* The same non-empty order was submitted twice and both were answered.
C3_Witness ==
    \E r, q \in Requests :
        /\ r # q
        /\ pc[r] = "done" /\ pc[q] = "done"
        /\ order[r] = order[q]
        /\ order[r].products # <<>>
        /\ Len(fake_orders_db) = 2
        /\ fake_orders_db[1] = fake_orders_db[2]

\* C4: the store is append-only: the store before any step is a prefix of
\* the store after it.
C4_AppendOnly ==
    [][IsPrefix(fake_orders_db, fake_orders_db')]_vars

\* Two different entries are in the store.
C4_Witness ==
    /\ Len(fake_orders_db) = 2
    /\ fake_orders_db[1] # fake_orders_db[2]
    /\ running = 0

\* C5: the response to an accepted request is exactly the summary with the
\* path's identifier and the order's two totals; customer 7 with products
\* (1.5 x 2) and (10.0 x 1) gets id 7, quantity 3, total_price 13.0, and
\* customer 42 with (1.5 x 4) gets id 42, quantity 4, total_price 6.0.
C5_ResponseIsSummary ==
    \A r \in Requests :
        pc[r] = "done" =>
            LET products == order[r].products
                pq == [i \in DOMAIN products |->
                          <<products[i].price, products[i].quantity>>]
            IN  /\ response[r] =
                       [status |-> 200,
                        body |-> [id |-> customer_id[r],
                                  quantity |->
                                      SumQuantity(products, DOMAIN products),
                                  total_price |->
                                      SumPriceTimesQuantity(products,
                                                            DOMAIN products)]]
                /\ (customer_id[r] = 7 /\ pq = <<(<<3, 2>>), (<<20, 1>>)>>) =>
                       response[r].body =
                           [id |-> 7, quantity |-> 3, total_price |-> 26]
                /\ (customer_id[r] = 42 /\ pq = <<(<<3, 4>>)>>) =>
                       response[r].body =
                           [id |-> 42, quantity |-> 4, total_price |-> 12]

\* Customer 7 was answered for (1.5 x 2), (10.0 x 1) and customer 42 for
\* (1.5 x 4).
C5_Witness ==
    \E r, q \in Requests :
        /\ pc[r] = "done" /\ customer_id[r] = 7
        /\ Len(order[r].products) = 2
        /\ order[r].products[1].price = 3 /\ order[r].products[1].quantity = 2
        /\ order[r].products[2].price = 20 /\ order[r].products[2].quantity = 1
        /\ pc[q] = "done" /\ customer_id[q] = 42
        /\ Len(order[q].products) = 1
        /\ order[q].products[1].quantity = 4

\* C6: the entry appended for an accepted order is a snapshot of the
\* parsed order: exactly the fields email, products, total_price and
\* total_quantity, with the order's email and product sequence and the
\* totals of that sequence, and no customer identifier.
C6_EntryIsSnapshot ==
    \A r \in Requests :
        slot[r] # 0 =>
            LET e == fake_orders_db[slot[r]]
                products == order[r].products
            IN  /\ DOMAIN e = {"email", "products", "total_price", "total_quantity"}
                /\ e.email = order[r].email
                /\ e.products = products
                /\ e.total_quantity = SumQuantity(products, DOMAIN products)
                /\ e.total_price = SumPriceTimesQuantity(products, DOMAIN products)
                /\ "customer_id" \notin DOMAIN e /\ "id" \notin DOMAIN e

\* An order with an email and two products is stored, Pen before Mug.
C6_Witness ==
    \E r \in Requests :
        /\ pc[r] = "done"
        /\ order[r].email.some
        /\ Len(fake_orders_db[slot[r]].products) = 2
        /\ fake_orders_db[slot[r]].products[1].product_name = <<"P", "e", "n">>
        /\ fake_orders_db[slot[r]].products[2].product_name = <<"M", "u", "g">>
        /\ fake_orders_db[slot[r]].total_price = 26

\* The steps a request takes, in the program's order.
StepOrder ==
    {<<"new", "reading">>, <<"reading", "rejected">>, <<"reading", "validated">>,
     <<"validated", "dumped">>, <<"dumped", "appended">>, <<"appended", "done">>}

\* C7: on a successful submission the body is validated, then the handler
\* computes the derived fields, then appends the snapshot, then returns the
\* summary: a returned summary has its entry in the store, a stored entry
\* is the dump that was computed before it, a dump exists only for a
\* validated request, and each request moves one step at a time.
C7_ValidateDumpAppendReturn ==
    /\ [](\A r \in Requests :
             /\ response[r].status = 200 =>
                    /\ pc[r] = "done"
                    /\ slot[r] \in 1..Len(fake_orders_db)
             /\ slot[r] # 0 =>
                    /\ pc[r] \in {"appended", "done"}
                    /\ snapshot[r].taken
                    /\ fake_orders_db[slot[r]] = snapshot[r].value
             /\ snapshot[r].taken => pc[r] \in {"dumped", "appended", "done"}
             /\ pc[r] \in {"dumped", "appended"} => response[r].status = 0)
    /\ [][\A r \in Requests :
             pc'[r] # pc[r] => <<pc[r], pc'[r]>> \in StepOrder]_vars

\* A handler has appended its snapshot and not yet returned the summary.
C7_Witness ==
    \E r \in Requests :
        /\ pc[r] = "appended"
        /\ response[r].status = 0
        /\ fake_orders_db[slot[r]].total_quantity = 3

HasNegativeLine(products) ==
    \E i \in 1..Len(products) : products[i].price < 0 \/ products[i].quantity < 0

\* C8: negative prices and quantities are not rejected: a request that is
\* not malformed is accepted whatever the signs of its numbers, the parsed
\* products carry the numbers as sent, and the entry stored for an order
\* with a negative line holds those products and their sums.
C8_NegativesAccepted ==
    /\ [](\A r \in Requests :
             (pc[r] = "done" /\ HasNegativeLine(order[r].products)) =>
                 LET e == fake_orders_db[slot[r]]
                     products == order[r].products
                 IN  /\ e.products = products
                     /\ e.total_quantity = SumQuantity(products, DOMAIN products)
                     /\ e.total_price =
                            SumPriceTimesQuantity(products, DOMAIN products)
                     /\ response[r].body.quantity = e.total_quantity
                     /\ response[r].body.total_price = e.total_price)
    /\ [][\A r \in Requests :
             (pc[r] = "reading" /\ ~Malformed(raw[r]) /\ pc'[r] # "reading") =>
                 /\ pc'[r] = "validated"
                 /\ Len(order'[r].products) = Len(raw[r].body.products)
                 /\ \A i \in 1..Len(raw[r].body.products) :
                        LET p == raw[r].body.products[i]
                        IN  /\ p.price.kind = "number" =>
                                order'[r].products[i].price = p.price.num
                            /\ p.quantity.kind = "number" =>
                                2 * order'[r].products[i].quantity = p.quantity.num]_vars

\* Two answered orders, one with a negative quantity and negative totals,
\* one with a negative price and a negative total price.
C8_Witness ==
    \E r, q \in Requests :
        /\ pc[r] = "done"
        /\ Len(order[r].products) = 1
        /\ order[r].products[1].quantity < 0
        /\ response[r].body.quantity < 0
        /\ response[r].body.total_price < 0
        /\ pc[q] = "done"
        /\ Len(order[q].products) = 1
        /\ order[q].products[1].price < 0
        /\ fake_orders_db[slot[q]].total_price < 0
        /\ fake_orders_db[slot[q]].total_quantity > 0

InHandler(r) == pc[r] \in {"validated", "dumped", "appended"}

\* C9: with several requests in flight on the event loop no append is lost
\* or overwritten: at most one request is inside the handler, and while it
\* is no other request moves; once no handler is running the store holds
\* one entry per handler that ran, in the order the handlers ran, each the
\* dump of its own request's order.
C9_HandlersAreAtomic ==
    /\ [](/\ \A r, q \in Requests : (InHandler(r) /\ InHandler(q)) => r = q
          /\ \A r \in Requests : InHandler(r) => running = r
          /\ running = 0 =>
                 /\ Len(fake_orders_db) = Len(ran)
                 /\ \A i, j \in 1..Len(ran) : ran[i] = ran[j] => i = j
                 /\ Range(ran) = {r \in Requests : pc[r] = "done"}
                 /\ \A i \in 1..Len(ran) :
                        /\ slot[ran[i]] = i
                        /\ fake_orders_db[i].email = order[ran[i]].email
                        /\ fake_orders_db[i].products = order[ran[i]].products)
    /\ [][\A r, q \in Requests :
             (InHandler(r) /\ q # r) =>
                 /\ pc'[q] = pc[q]
                 /\ response'[q] = response[q]
                 /\ slot'[q] = slot[q]]_vars

\* Request 2 arrived while request 1 was in flight and its handler ran
\* first; both are answered and stored, in the order the handlers ran.
C9_Witness ==
    /\ MaxRequests >= 2
    /\ pc[1] = "done" /\ pc[2] = "done"
    /\ ran[1] = 2 /\ ran[2] = 1
    /\ fake_orders_db[1].products = order[2].products
    /\ fake_orders_db[2].products = order[1].products
    /\ order[1].products # order[2].products

\* C10: the derived fields never go stale within a request: the quantity
\* and total_price of the response equal the total_quantity and
\* total_price of the entry the same request appended, and the product list
\* the response was computed from is the one that entry holds.
C10_ResponseMatchesEntry ==
    \A r \in Requests :
        response[r].status = 200 =>
            /\ slot[r] \in 1..Len(fake_orders_db)
            /\ response[r].body.quantity = fake_orders_db[slot[r]].total_quantity
            /\ response[r].body.total_price = fake_orders_db[slot[r]].total_price
            /\ order[r].products = fake_orders_db[slot[r]].products

\* A request was answered with non-zero totals that differ from the number
\* of product lines.
C10_Witness ==
    \E r \in Requests :
        /\ response[r].status = 200
        /\ response[r].body.quantity # Len(order[r].products)
        /\ response[r].body.total_price > 0
        /\ fake_orders_db[slot[r]].total_quantity = 4

====
